---- MODULE Spec2Model ----
(***************************************************************************)
(* Fog of War of phungvankhanh/zoc, core/src/fow.rs.                       *)
(*                                                                         *)
(* One Fow instance (map, player_id) replays the CoreEvents of a game.     *)
(* The game state the caller passes to apply_event (units, objects,        *)
(* terrain), the unit type database and the FoV primitives live outside    *)
(* fow.rs; they are modelled from their documented interfaces.             *)
(***************************************************************************)
EXTENDS Integers, FiniteSets, Sequences, TLC

VARIABLES
    map,        \* Fow.map: MapPos -> TileVisibility
    player_id,  \* Fow.player_id
    units,      \* state.units(): UnitId -> Unit
    objects,    \* state.objects_at(pos): MapPos -> Seq(ObjectClass)
    panicked,   \* TRUE once assert!(unit.is_alive) has failed
    lastEvent,  \* history: the CoreEvent of the latest apply_event call
    prevMap,    \* history: Fow.map at the start of the latest apply_event call
    revealed,   \* history: tiles written by an attack reveal since the last reset
    prevRevealed, \* history: revealed at the start of the latest apply_event call
    sweeps,     \* history: the fov_unit calls made since the last reset
    nEvents,    \* history: number of apply_event calls so far
    ops,        \* OpsSpec: the calls made so far on one fixed game state
    startMap,   \* OpsSpec: Fow.map before the first of them
    calcArgs,   \* CalcSpec: the arguments of one calc_visibility call
    calcResult  \* CalcSpec: <<>>, then <<what the call returned>>

vars == <<map, player_id, units, objects, panicked, lastEvent, prevMap, revealed,
          prevRevealed, sweeps, nEvents, ops, startMap, calcArgs, calcResult>>

----------------------------------------------------------------------------
(* Bounds of the model *)

MapW == 3
MapH == 2
MaxEvents == 4

----------------------------------------------------------------------------
(* TileVisibility: derive(PartialOrd) orders the variants as declared *)

No == 0
Normal == 1
Excellent == 2

TileVisibility == {No, Normal, Excellent}

Max(a, b) == IF a > b THEN a ELSE b

Abs(x) == IF x < 0 THEN -x ELSE x

----------------------------------------------------------------------------
(* Collaborators of fow.rs *)

\* Map::get_iter: the in-bounds positions of a Size2 {w, h} map
MapPos == (0 .. MapW - 1) \X (0 .. MapH - 1)

\* map::distance: hex distance of two axial coordinates
Distance(from, to) ==
    LET dq == to[1] - from[1]
        dr == to[2] - from[2]
    IN  (Abs(dq) + Abs(dr) + Abs(dq + dr)) \div 2

\* Db::unit_type: the unit type table
Db ==
    [ truck   |-> [los_range |-> 1, cover_los_range |-> 1, is_air |-> FALSE, is_infantry |-> FALSE],
      soldier |-> [los_range |-> 2, cover_los_range |-> 0, is_air |-> FALSE, is_infantry |-> TRUE],
      heli    |-> [los_range |-> 2, cover_los_range |-> 1, is_air |-> TRUE,  is_infantry |-> FALSE] ]

TypeIds == DOMAIN Db

PlayerIds == {0, 1, 2}

UnitIds == {1, 2, 3}

\* the unit_info a CreateUnit event carries for each unit of the scenario
UnitInfo ==
    [ u \in UnitIds |->
        CASE u = 1 -> [unit_id |-> 1, player_id |-> 0, type_id |-> "truck",   pos |-> <<0, 0>>]
          [] u = 2 -> [unit_id |-> 2, player_id |-> 0, type_id |-> "soldier", pos |-> <<0, 1>>]
          [] u = 3 -> [unit_id |-> 3, player_id |-> 1, type_id |-> "heli",    pos |-> <<2, 1>>] ]

\* state.map(): the terrain of the scenario
TerrainMap ==
    [ p \in MapPos |->
        CASE p = <<2, 0>> -> "Trees"
          [] p = <<1, 1>> -> "City"
          [] p = <<0, 1>> -> "Water"
          [] OTHER        -> "Plain" ]

\* the objects of the scenario that no event adds or removes
FixedObjects ==
    [ p \in MapPos |->
        CASE p = <<1, 0>> -> <<"Road">>
          [] p = <<2, 1>> -> <<"ReinforcementSector">>
          [] OTHER        -> <<>> ]

\* where a Smoke event may put smoke
SmokePos == {<<1, 0>>, <<2, 1>>}

\* the GameState passed to a call: units(), map(), objects_at()
State(us, objs) == [units |-> us, map |-> TerrainMap, objects |-> objs]

HasClass(state, pos, classes) ==
    \E i \in 1 .. Len(state.objects[pos]) : state.objects[pos][i] \in classes

\* a tile that blocks the line of sight of the terrain-aware primitive
IsObstacle(state, pos) ==
    \/ state.map[pos] \in {"City", "Trees"}
    \/ HasClass(state, pos, {"Building", "Smoke"})

\* fov::simple_fov: every in-bounds position within range of origin
SimpleFov(state, origin, range) ==
    { p \in MapPos : Distance(origin, p) <= range }

\* fov::fov: the positions within range that no obstacle strictly between
\* origin and target hides; origin is always visited
Fov(state, origin, range) ==
    { p \in MapPos :
        /\ Distance(origin, p) <= range
        /\ \A q \in MapPos \ {origin, p} :
             ~ ( /\ IsObstacle(state, q)
                 /\ Distance(origin, q) + Distance(q, p) = Distance(origin, p) ) }

----------------------------------------------------------------------------
(* fow.rs *)

\* mutant of ObjectsVis: a Road or ReinforcementSector clears the tile again
RECURSIVE ObjectsVisLastWins(_, _)
ObjectsVisLastWins(objs, vis) ==
    IF objs = <<>> THEN vis
    ELSE ObjectsVisLastWins(Tail(objs),
                            IF Head(objs) \in {"Building", "Smoke"} THEN Normal ELSE Excellent)

\* calc_visibility: fold over the objects of the target tile
RECURSIVE ObjectsVis(_, _)
ObjectsVis(objs, vis) ==
    IF objs = <<>> THEN vis
    ELSE ObjectsVis(Tail(objs),
                    IF Head(objs) \in {"Building", "Smoke"} THEN Normal ELSE vis)

CalcVisibility(state, unit_type, origin, pos) ==
    LET distance == Distance(origin, pos) IN
    IF distance > unit_type.los_range THEN No
    ELSE IF distance <= unit_type.cover_los_range THEN Excellent
    ELSE ObjectsVis(state.objects[pos],
                    IF state.map[pos] \in {"City", "Trees"} THEN Normal ELSE Excellent)

\* mutant of Visited: the terrain-aware primitive for air units too
VisitedAlwaysFov(state, unit) ==
    Fov(state, unit.pos, Db[unit.type_id].los_range)

\* the set of positions the primitive chosen by fov_unit visits
Visited(state, unit) ==
    LET unit_type == Db[unit.type_id] IN
    IF unit_type.is_air
    THEN SimpleFov(state, unit.pos, unit_type.los_range)
    ELSE Fov(state, unit.pos, unit_type.los_range)

\* mutant of FovUnit: the visitor raises a lower tile by one step only
FovUnitStep(state, fow, unit) ==
    [ pos \in MapPos |->
        IF pos \in Visited(state, unit)
             /\ CalcVisibility(state, Db[unit.type_id], unit.pos, pos) > fow[pos]
        THEN fow[pos] + 1
        ELSE fow[pos] ]

\* mutant of FovUnit: the visitor stores vis without comparing it
FovUnitOverwrite(state, fow, unit) ==
    [ pos \in MapPos |->
        IF pos \in Visited(state, unit)
        THEN CalcVisibility(state, Db[unit.type_id], unit.pos, pos)
        ELSE fow[pos] ]

\* fov_unit past its assertion: the visitor raises each visited tile to vis
FovUnit(state, fow, unit) ==
    LET unit_type == Db[unit.type_id]
        origin    == unit.pos
    IN  [ pos \in MapPos |->
            IF pos \in Visited(state, unit)
            THEN LET vis == CalcVisibility(state, unit_type, origin, pos)
                 IN  IF vis > fow[pos] THEN vis ELSE fow[pos]
            ELSE fow[pos] ]

\* Fow::new: Map::new(map_size) filled with TileVisibility::default()
NewMap == [ pos \in MapPos |-> No ]

\* mutant of IsTileVisible: only Excellent counts as visible
IsTileVisibleExcellentOnly(fow, pos) == fow[pos] \in {Excellent}

IsTileVisible(fow, pos) == fow[pos] \in {Excellent, Normal}

\* mutant of CheckTerrainVisibility: Normal shows every unit type
CheckTerrainVisibilityNoGate(fow, unit_type, pos) ==
    CASE fow[pos] = Excellent -> TRUE
      [] fow[pos] = Normal    -> TRUE
      [] fow[pos] = No        -> FALSE

CheckTerrainVisibility(fow, unit_type, pos) ==
    CASE fow[pos] = Excellent -> TRUE
      [] fow[pos] = Normal    -> ~ unit_type.is_infantry
      [] fow[pos] = No        -> FALSE

\* mutant of IsVisible: no early return for a loaded unit
IsVisibleLoaded(fow, state, unit, pos) ==
    LET unit_type == Db[unit.type_id] IN
    IF /\ unit_type.is_air
       /\ \E e \in DOMAIN state.units :
            /\ state.units[e].player_id # unit.player_id
            /\ Distance(pos, state.units[e].pos) <= Db[state.units[e].type_id].los_range
    THEN TRUE
    ELSE CheckTerrainVisibility(fow, unit_type, pos)

\* mutant of IsVisible: distance < los_range in place of <=
IsVisibleStrictRange(fow, state, unit, pos) ==
    IF unit.is_loaded THEN FALSE
    ELSE LET unit_type == Db[unit.type_id] IN
         IF /\ unit_type.is_air
            /\ \E e \in DOMAIN state.units :
                 /\ state.units[e].player_id # unit.player_id
                 /\ Distance(pos, state.units[e].pos) < Db[state.units[e].type_id].los_range
         THEN TRUE
         ELSE CheckTerrainVisibility(fow, unit_type, pos)

IsVisible(fow, state, unit, pos) ==
    IF unit.is_loaded THEN FALSE
    ELSE LET unit_type == Db[unit.type_id] IN
         IF /\ unit_type.is_air
            /\ \E e \in DOMAIN state.units :
                 /\ state.units[e].player_id # unit.player_id
                 /\ Distance(pos, state.units[e].pos) <= Db[state.units[e].type_id].los_range
         THEN TRUE
         ELSE CheckTerrainVisibility(fow, unit_type, pos)

\* mutant of Clear: the tiles keep their values
ClearNothing(fow) == fow

\* Fow::clear
Clear(fow) == [ pos \in MapPos |-> No ]

\* mutant of ResetUnits: the units of the player, dead ones too
ResetUnitsDeadToo(state, pid) ==
    { u \in DOMAIN state.units : state.units[u].player_id = pid }

\* the units Fow::reset sweeps
ResetUnits(state, pid) ==
    { u \in DOMAIN state.units :
        state.units[u].player_id = pid /\ state.units[u].is_alive }

\* the result of a call: the map it leaves, and whether it aborted
Done(fow) == [map |-> fow, panicked |-> FALSE]

\* a call of fov_unit, with its assert!(unit.is_alive)
CallFovUnit(state, fow, unit) ==
    IF unit.is_alive
    THEN Done(FovUnit(state, fow, unit))
    ELSE [map |-> fow, panicked |-> TRUE]

\* the loop of Fow::reset over state.units().values(): r is the result so far
RECURSIVE SweepAll(_, _, _)
SweepAll(state, r, ids) ==
    IF ids = {} \/ r.panicked THEN r
    ELSE LET u == CHOOSE x \in ids : TRUE
         IN  SweepAll(state, CallFovUnit(state, r.map, state.units[u]), ids \ {u})

\* mutant of Reset: the sweeps run on the map as it is
ResetNoClear(state, fow, pid) == SweepAll(state, Done(fow), ResetUnits(state, pid))

\* Fow::reset
Reset(state, fow, pid) == SweepAll(state, Done(Clear(fow)), ResetUnits(state, pid))

\* CoreEvent: the fields apply_event reads; attacker_id is an Option, <<>> is None
Event(tag) ==
    [tag |-> tag, unit_id |-> 0, player_id |-> 0, new_id |-> 0,
     attacker_id |-> <<>>, is_ambush |-> FALSE, transporter_id |-> 0]

IgnoredTags ==
    {"ShowUnit", "HideUnit", "LoadUnit", "Attach", "SetReactionFireMode",
     "SectorOwnerChanged", "Smoke", "RemoveSmoke", "VictoryPoint"}

\* mutant of ApplyMove: the mover is swept whoever owns it
ApplyMoveAnyPlayer(fow, pid, state, event) ==
    CallFovUnit(state, fow, state.units[event.unit_id])

\* apply_event, CoreEvent::Move
ApplyMove(fow, pid, state, event) ==
    LET unit == state.units[event.unit_id] IN
    IF unit.player_id = pid THEN CallFovUnit(state, fow, unit) ELSE Done(fow)

\* mutant of ApplyEndTurn: the map is reset whoever's turn starts
ApplyEndTurnAnyPlayer(fow, pid, state, event) == Reset(state, fow, pid)

\* apply_event, CoreEvent::EndTurn
ApplyEndTurn(fow, pid, state, event) ==
    IF pid = event.new_id THEN Reset(state, fow, pid) ELSE Done(fow)

\* apply_event, CoreEvent::CreateUnit
ApplyCreateUnit(fow, pid, state, event) ==
    LET unit == state.units[event.unit_id] IN
    IF pid = event.player_id THEN CallFovUnit(state, fow, unit) ELSE Done(fow)

\* mutant of ApplyAttackUnit: the reveal stores Normal
ApplyAttackUnitNormal(fow, pid, state, event) ==
    IF event.attacker_id # <<>> /\ ~ event.is_ambush
    THEN LET pos == state.units[event.attacker_id[1]].pos
         IN  Done([fow EXCEPT ![pos] = Normal])
    ELSE Done(fow)

\* mutant of ApplyAttackUnit: is_ambush is not looked at
ApplyAttackUnitAmbushReveals(fow, pid, state, event) ==
    IF event.attacker_id # <<>>
    THEN LET pos == state.units[event.attacker_id[1]].pos
         IN  Done([fow EXCEPT ![pos] = Excellent])
    ELSE Done(fow)

\* apply_event, CoreEvent::AttackUnit
ApplyAttackUnit(fow, pid, state, event) ==
    IF event.attacker_id # <<>> /\ ~ event.is_ambush
    THEN LET pos == state.units[event.attacker_id[1]].pos
         IN  Done([fow EXCEPT ![pos] = Excellent])
    ELSE Done(fow)

\* apply_event, CoreEvent::UnloadUnit
ApplyUnloadUnit(fow, pid, state, event) ==
    IF pid = event.player_id
    THEN CallFovUnit(state, fow, state.units[event.unit_id])
    ELSE Done(fow)

\* mutant of ApplyDetach: the transporter is swept whoever owns it
ApplyDetachAnyPlayer(fow, pid, state, event) ==
    CallFovUnit(state, fow, state.units[event.transporter_id])

\* apply_event, CoreEvent::Detach
ApplyDetach(fow, pid, state, event) ==
    LET transporter == state.units[event.transporter_id] IN
    IF pid = transporter.player_id
    THEN CallFovUnit(state, fow, transporter)
    ELSE Done(fow)

\* mutant of ApplyIgnored: smoke put or removed has the map recomputed
ApplyIgnoredSmokeResets(fow, pid, state, event) ==
    IF event.tag \in {"Smoke", "RemoveSmoke"} THEN Reset(state, fow, pid) ELSE Done(fow)

\* apply_event, the variants with an empty arm
ApplyIgnored(fow, pid, state, event) == Done(fow)

\* Fow::apply_event
ApplyEvent(fow, pid, state, event) ==
    CASE event.tag = "Move"       -> ApplyMove(fow, pid, state, event)
      [] event.tag = "EndTurn"    -> ApplyEndTurn(fow, pid, state, event)
      [] event.tag = "CreateUnit" -> ApplyCreateUnit(fow, pid, state, event)
      [] event.tag = "AttackUnit" -> ApplyAttackUnit(fow, pid, state, event)
      [] event.tag = "UnloadUnit" -> ApplyUnloadUnit(fow, pid, state, event)
      [] event.tag = "Detach"     -> ApplyDetach(fow, pid, state, event)
      [] event.tag \in IgnoredTags -> ApplyIgnored(fow, pid, state, event)

----------------------------------------------------------------------------
(* The game around the Fow: each step the core changes its state by one    *)
(* event and hands the new state and the event to apply_event.             *)

\* the tiles an attack reveal has written since the last reset
Revealed(old, pid, state, event) ==
    CASE event.tag = "EndTurn" /\ event.new_id = pid -> {}
      [] event.tag = "AttackUnit" /\ event.attacker_id # <<>> /\ ~ event.is_ambush ->
            old \cup {state.units[event.attacker_id[1]].pos}
      [] OTHER -> old

\* the unit an event has fov_unit called for, if it is of player pid: <<>> or <<id>>
SweptUnit(pid, state, event) ==
    CASE event.tag = "Move" /\ state.units[event.unit_id].player_id = pid -> <<event.unit_id>>
      [] event.tag \in {"CreateUnit", "UnloadUnit"} /\ event.player_id = pid -> <<event.unit_id>>
      [] event.tag = "Detach" /\ state.units[event.transporter_id].player_id = pid ->
            <<event.transporter_id>>
      [] OTHER -> <<>>

\* a completed fov_unit call: the unit as it was and the objects of the state passed
SweepOf(state, u) == [unit |-> state.units[u], objects |-> state.objects]

\* the fov_unit calls completed since the last reset, that reset's included
Sweeps(old, pid, state, event) ==
    IF event.tag = "EndTurn" /\ event.new_id = pid
    THEN { SweepOf(state, u) : u \in ResetUnits(state, pid) }
    ELSE LET swept == SweptUnit(pid, state, event) IN
         IF swept # <<>> /\ state.units[swept[1]].is_alive
         THEN old \cup {SweepOf(state, swept[1])}
         ELSE old

\* one call apply_event(state, event) on the Fow
Apply(us, objs, event) ==
    LET r == ApplyEvent(map, player_id, State(us, objs), event) IN
    /\ ~ panicked
    /\ nEvents < MaxEvents
    /\ map' = r.map
    /\ panicked' = r.panicked
    /\ units' = us
    /\ objects' = objs
    /\ lastEvent' = event
    /\ prevMap' = map
    /\ revealed' = Revealed(revealed, player_id, State(us, objs), event)
    /\ prevRevealed' = revealed
    /\ sweeps' = Sweeps(sweeps, player_id, State(us, objs), event)
    /\ nEvents' = nEvents + 1
    /\ UNCHANGED <<player_id, ops, startMap, calcArgs, calcResult>>

NewUnit(u) ==
    [pos |-> UnitInfo[u].pos, type_id |-> UnitInfo[u].type_id,
     player_id |-> UnitInfo[u].player_id, is_alive |-> TRUE, is_loaded |-> FALSE]

Init ==
    /\ map = NewMap
    /\ player_id \in {0, 1}
    /\ units = [u \in {} |-> NewUnit(1)]
    /\ objects = FixedObjects
    /\ panicked = FALSE
    /\ lastEvent = Event("None")
    /\ prevMap = NewMap
    /\ revealed = {}
    /\ prevRevealed = {}
    /\ sweeps = {}
    /\ nEvents = 0
    /\ ops = <<>>
    /\ startMap = NewMap
    /\ calcArgs = <<>>
    /\ calcResult = <<>>

\* a unit enters the game; an event naming a dead unit creates nothing
CreateUnit ==
    \E u \in UnitIds :
        /\ u \in DOMAIN units => ~ units[u].is_alive
        /\ Apply(IF u \in DOMAIN units THEN units
                 ELSE [x \in DOMAIN units \cup {u} |-> IF x = u THEN NewUnit(u) ELSE units[x]],
                 objects,
                 [Event("CreateUnit") EXCEPT !.unit_id = u, !.player_id = UnitInfo[u].player_id])

\* a unit on the map moves up to two hexes; an event naming a dead unit
\* moves nothing
Move ==
    \E u \in DOMAIN units, p \in MapPos :
        /\ ~ units[u].is_loaded
        /\ p # units[u].pos
        /\ Distance(units[u].pos, p) <= 2
        /\ Apply(IF units[u].is_alive THEN [units EXCEPT ![u].pos = p] ELSE units,
                 objects,
                 [Event("Move") EXCEPT !.unit_id = u])

EndTurn ==
    \E new_id \in {0, 1} :
        Apply(units, objects, [Event("EndTurn") EXCEPT !.new_id = new_id])

\* an attack on a unit of another player; the defender may die. The
\* attacker is hidden from the event (attacker_id None) or named in it.
AttackUnit ==
    \E a \in DOMAIN units, d \in DOMAIN units, named, is_ambush, killed \in BOOLEAN :
        /\ units[a].is_alive /\ units[d].is_alive
        /\ ~ units[a].is_loaded /\ ~ units[d].is_loaded
        /\ units[a].player_id # units[d].player_id
        /\ Apply(IF killed THEN [units EXCEPT ![d].is_alive = FALSE] ELSE units,
                 objects,
                 [Event("AttackUnit") EXCEPT
                     !.attacker_id = IF named THEN <<a>> ELSE <<>>,
                     !.is_ambush = is_ambush])

\* the soldier boards the truck standing next to it
LoadUnit ==
    \E t \in DOMAIN units, u \in DOMAIN units :
        /\ units[t].type_id = "truck" /\ Db[units[u].type_id].is_infantry
        /\ units[t].player_id = units[u].player_id
        /\ units[t].is_alive /\ units[u].is_alive /\ ~ units[u].is_loaded
        /\ Distance(units[t].pos, units[u].pos) <= 1
        /\ Apply([units EXCEPT ![u].is_loaded = TRUE, ![u].pos = units[t].pos],
                 objects,
                 [Event("LoadUnit") EXCEPT !.unit_id = u, !.transporter_id = t])

\* a loaded unit leaves its transporter for a neighbouring tile; an event
\* naming a dead unit unloads nothing
UnloadUnit ==
    \E u \in DOMAIN units, p \in MapPos :
        /\ units[u].is_loaded \/ ~ units[u].is_alive
        /\ Distance(units[u].pos, p) = 1
        /\ Apply(IF units[u].is_alive
                 THEN [units EXCEPT ![u].is_loaded = FALSE, ![u].pos = p]
                 ELSE units,
                 objects,
                 [Event("UnloadUnit") EXCEPT !.unit_id = u, !.player_id = units[u].player_id])

\* a transporter drops what it tows and moves on
Detach ==
    \E t \in DOMAIN units, p \in MapPos :
        /\ units[t].type_id = "truck"
        /\ Distance(units[t].pos, p) = 1
        /\ Apply(IF units[t].is_alive THEN [units EXCEPT ![t].pos = p] ELSE units,
                 objects,
                 [Event("Detach") EXCEPT !.transporter_id = t])

Smoke ==
    \E p \in SmokePos :
        /\ ~ HasClass(State(units, objects), p, {"Smoke"})
        /\ Apply(units, [objects EXCEPT ![p] = Append(@, "Smoke")], Event("Smoke"))

RemoveSmoke ==
    \E p \in SmokePos :
        /\ HasClass(State(units, objects), p, {"Smoke"})
        /\ Apply(units, [objects EXCEPT ![p] = FixedObjects[p]], Event("RemoveSmoke"))

\* the events that change nothing the Fow reads
Other ==
    \E tag \in IgnoredTags \ {"LoadUnit", "Smoke", "RemoveSmoke"} :
        Apply(units, objects, Event(tag))

Next ==
    \/ CreateUnit
    \/ Move
    \/ EndTurn
    \/ AttackUnit
    \/ LoadUnit
    \/ UnloadUnit
    \/ Detach
    \/ Smoke
    \/ RemoveSmoke
    \/ Other

Spec == Init /\ [][Next]_vars

----------------------------------------------------------------------------
(* OpsSpec: one game state, any starting map, and up to two calls on it:   *)
(* fov_unit for a unit, or apply_event for an event the state allows.      *)

Terrains == {"City", "Trees", "Plain", "Water"}

ObjectClasses == {"Building", "Smoke", "Road", "ReinforcementSector"}

\* the maps a sequence of calls may start from
StartMaps ==
    { [p \in MapPos |-> v] : v \in TileVisibility }
        \cup { [p \in MapPos |-> (p[1] + p[2]) % 3],
               [p \in MapPos |-> (2 * p[1] + p[2] + 1) % 3] }

OpsUnit(type_id, pos) ==
    [pos |-> pos, type_id |-> type_id, player_id |-> 0, is_alive |-> TRUE, is_loaded |-> FALSE]

OpsInit ==
    /\ map \in StartMaps
    /\ startMap = map
    /\ prevMap = map
    /\ player_id = 0
    /\ \E t \in TypeIds, p \in MapPos :
         units = [u \in {1, 2} |-> IF u = 1 THEN OpsUnit(t, p) ELSE OpsUnit("soldier", <<2, 0>>)]
    /\ objects \in {FixedObjects, [FixedObjects EXCEPT ![<<1, 0>>] = Append(@, "Smoke")]}
    /\ panicked = FALSE
    /\ lastEvent = Event("None")
    /\ revealed = {}
    /\ prevRevealed = {}
    /\ sweeps = {}
    /\ nEvents = 0
    /\ ops = <<>>
    /\ calcArgs = <<>>
    /\ calcResult = <<>>

\* the events of the calls: every variant, for each unit of the state
OpsEvents ==
    { [Event("Move") EXCEPT !.unit_id = u] : u \in {1, 2} }
        \cup { [Event("CreateUnit") EXCEPT !.unit_id = u, !.player_id = 0] : u \in {1, 2} }
        \cup { [Event("UnloadUnit") EXCEPT !.unit_id = u, !.player_id = 0] : u \in {1, 2} }
        \cup { [Event("Detach") EXCEPT !.transporter_id = u] : u \in {1, 2} }
        \cup { [Event("AttackUnit") EXCEPT !.attacker_id = <<u>>, !.is_ambush = b] :
                 u \in {1, 2}, b \in BOOLEAN }
        \cup { Event("AttackUnit") }
        \cup { [Event("EndTurn") EXCEPT !.new_id = n] : n \in {0, 1} }
        \cup { Event(tag) : tag \in {"Smoke", "LoadUnit", "VictoryPoint"} }

\* what a call leaves of map fow: fov_unit for a unit, or apply_event
OpResult(fow, op) ==
    IF op.tag = "fov_unit"
    THEN CallFovUnit(State(units, objects), fow, units[op.unit_id])
    ELSE ApplyEvent(fow, player_id, State(units, objects), op)

OpsCall(op) ==
    /\ Len(ops) < 2
    /\ ~ OpResult(map, op).panicked
    /\ map' = OpResult(map, op).map
    /\ prevMap' = map
    /\ lastEvent' = op
    /\ ops' = Append(ops, op)
    /\ nEvents' = nEvents + 1
    /\ UNCHANGED <<player_id, units, objects, panicked, revealed, prevRevealed, sweeps,
                   startMap, calcArgs, calcResult>>

FovUnitOp == \E u \in DOMAIN units : OpsCall([Event("fov_unit") EXCEPT !.unit_id = u])

EventOp == \E e \in OpsEvents : OpsCall(e)

OpsNext == FovUnitOp \/ EventOp

OpsSpec == OpsInit /\ [][OpsNext]_vars

----------------------------------------------------------------------------
(* CalcSpec: one call of calc_visibility on arguments drawn at the start.  *)

\* the objects of a tile: up to two, of any class
ObjectSeqs == UNION { [1 .. n -> ObjectClasses] : n \in 0 .. 2 }

CalcArgs ==
    { a \in [los_range : 0 .. 2, cover_los_range : 0 .. 2, origin : MapPos, pos : MapPos,
              terrain : Terrains, objs : ObjectSeqs] :
        a.cover_los_range <= a.los_range }

\* the state of the call: the target tile has the terrain and objects drawn
CalcState(a) ==
    [units |-> <<>>,
     map |-> [p \in MapPos |-> IF p = a.pos THEN a.terrain ELSE "Plain"],
     objects |-> [p \in MapPos |-> IF p = a.pos THEN a.objs ELSE <<>>]]

CalcUnitType(a) ==
    [los_range |-> a.los_range, cover_los_range |-> a.cover_los_range,
     is_air |-> FALSE, is_infantry |-> FALSE]

CalcInit ==
    /\ calcArgs \in CalcArgs
    /\ calcResult = <<>>
    /\ map = NewMap
    /\ startMap = NewMap
    /\ prevMap = NewMap
    /\ player_id = 0
    /\ units = <<>>
    /\ objects = FixedObjects
    /\ panicked = FALSE
    /\ lastEvent = Event("None")
    /\ revealed = {}
    /\ prevRevealed = {}
    /\ sweeps = {}
    /\ nEvents = 0
    /\ ops = <<>>

CalcCall ==
    /\ calcResult = <<>>
    /\ calcResult' = << CalcVisibility(CalcState(calcArgs), CalcUnitType(calcArgs),
                                       calcArgs.origin, calcArgs.pos) >>
    /\ UNCHANGED <<map, player_id, units, objects, panicked, lastEvent, prevMap, revealed,
                   prevRevealed, sweeps, nEvents, ops, startMap, calcArgs>>

CalcNext == CalcCall

CalcSpec == CalcInit /\ [][CalcNext]_vars

----------------------------------------------------------------------------
(* Properties *)

\* the state of the game as the latest call was given it
Now == State(units, objects)

\* the greatest visibility of a set of visibilities, No if there is none
Join(S) == IF S = {} THEN No ELSE CHOOSE v \in S : \A w \in S : w <= v

\* what the sweep of one unit contributes to tile p
SweepVis(state, unit, p) ==
    IF p \in Visited(state, unit)
    THEN CalcVisibility(state, Db[unit.type_id], unit.pos, p)
    ELSE No

IsOwnerReset == lastEvent.tag = "EndTurn" /\ lastEvent.new_id = player_id

\* the alive, unloaded units of the owning player
Observers ==
    { u \in DOMAIN units :
        units[u].player_id = player_id /\ units[u].is_alive /\ ~ units[u].is_loaded }

\* C1 as stated: every tile no attack reveal has written holds the join of
\* the contributions of the alive, unloaded units of the owning player as
\* they stand now.
C1_Original ==
    \A p \in MapPos :
        p \notin revealed =>
            map[p] = Join({ SweepVis(Now, units[u], p) : u \in Observers })

\* C1, amended: every tile holds the join of Excellent, if an attack reveal
\* has written it since the last reset of the owner, and of the contributions
\* of the sweeps run since that reset (the reset's own, over the alive units
\* of the owner, loaded ones included), each taken where the unit stood and
\* in the state passed when it was swept.
C1_SweepsSinceReset ==
    \A p \in MapPos :
        map[p] = Join( { SweepVis(State(units, s.objects), s.unit, p) : s \in sweeps }
                       \cup { Excellent : q \in revealed \cap {p} } )

\* a unit of the owner has moved away: a tile it no longer contributes to is
\* still lit
C1_Witness ==
    /\ lastEvent.tag = "Move"
    /\ units[lastEvent.unit_id].player_id = player_id
    /\ ~ panicked
    /\ revealed = {}
    /\ \E p \in MapPos :
         /\ map[p] # No
         /\ Join({ SweepVis(Now, units[u], p) : u \in Observers }) = No

\* C2: right after EndTurn for the owning player every tile holds the join of
\* the contributions of the alive units of the owner in the state passed, No
\* where none contributes, whatever the map was before.
C2_ResetRecomputes ==
    IsOwnerReset =>
        \A p \in MapPos :
            map[p] = Join({ SweepVis(Now, units[u], p) : u \in ResetUnits(Now, player_id) })

\* a reset has put out a tile an attack reveal had lit and kept another lit
C2_Witness ==
    /\ IsOwnerReset
    /\ \E p \in prevRevealed : prevMap[p] = Excellent /\ map[p] = No
    /\ \E p \in MapPos : map[p] # No

\* C3: no call other than EndTurn for the owning player lowers a tile.
C3_NoLoweringWithinTurn ==
    (nEvents > 0 /\ ~ IsOwnerReset) => \A p \in MapPos : map[p] >= prevMap[p]

\* a sweep has changed the map and visited a tile that was Excellent with a
\* lower visibility, and the tile is still Excellent
C3_Witness ==
    /\ lastEvent.tag \in {"Move", "CreateUnit", "UnloadUnit", "Detach"}
    /\ map # prevMap
    /\ \E s \in sweeps, p \in MapPos :
         /\ s.unit = units[SweptUnit(player_id, Now, lastEvent)[1]]
         /\ prevMap[p] = Excellent
         /\ SweepVis(Now, s.unit, p) = Normal
         /\ map[p] = Excellent

\* the unit arguments of is_visible: the fields it reads
UnitArgs == [type_id : TypeIds, player_id : PlayerIds, is_loaded : BOOLEAN]

\* C4: AttackUnit with an attacker named and no ambush puts Excellent on the
\* attacker's tile and leaves every other tile alone, whoever owns the Fow
\* or the attacker; with an ambush or no attacker named the map is unchanged.
C4_AttackReveal ==
    lastEvent.tag = "AttackUnit" =>
        IF lastEvent.attacker_id # <<>> /\ ~ lastEvent.is_ambush
        THEN map = [prevMap EXCEPT ![units[lastEvent.attacker_id[1]].pos] = Excellent]
        ELSE map = prevMap

\* the attack of a unit of another player has lit a tile that was dark
C4_Witness ==
    /\ lastEvent.tag = "AttackUnit"
    /\ lastEvent.attacker_id # <<>> /\ ~ lastEvent.is_ambush
    /\ units[lastEvent.attacker_id[1]].player_id # player_id
    /\ prevMap[units[lastEvent.attacker_id[1]].pos] = No
    /\ map[units[lastEvent.attacker_id[1]].pos] = Excellent

\* C5: is_visible is false for every loaded unit, at every position.
C5_LoadedInvisible ==
    \A a \in UnitArgs, pos \in MapPos :
        a.is_loaded => ~ IsVisible(map, Now, a, pos)

\* a loaded unit stands on an Excellent tile, and a unit of another player
\* has a tile within its LOS range
C5_Witness ==
    \E u \in DOMAIN units, e \in DOMAIN units :
        /\ units[u].is_loaded
        /\ map[units[u].pos] = Excellent
        /\ units[e].player_id # units[u].player_id
        /\ ~ IsVisible(map, Now, units[u], units[u].pos)

\* C6 as stated: on a Normal tile is_visible is false for a non-air unit
\* exactly when its type is infantry.
C6_Original ==
    \A a \in UnitArgs, pos \in MapPos :
        (~ Db[a.type_id].is_air /\ map[pos] = Normal) =>
            (~ IsVisible(map, Now, a, pos) <=> Db[a.type_id].is_infantry)

\* C6, amended: on a Normal tile is_visible is false for a non-air unit that
\* is not loaded exactly when its type is infantry.
C6_InfantryGate ==
    \A a \in UnitArgs, pos \in MapPos :
        (~ Db[a.type_id].is_air /\ ~ a.is_loaded /\ map[pos] = Normal) =>
            (~ IsVisible(map, Now, a, pos) <=> Db[a.type_id].is_infantry)

\* a Normal tile hides a soldier and shows a truck
C6_Witness ==
    \E pos \in MapPos, p \in PlayerIds :
        /\ map[pos] = Normal
        /\ ~ IsVisible(map, Now, [type_id |-> "soldier", player_id |-> p, is_loaded |-> FALSE], pos)
        /\ IsVisible(map, Now, [type_id |-> "truck", player_id |-> p, is_loaded |-> FALSE], pos)

\* a unit of another player than a's has pos within its LOS range
Spotted(state, a, pos) ==
    \E e \in DOMAIN state.units :
        /\ state.units[e].player_id # a.player_id
        /\ Distance(pos, state.units[e].pos) <= Db[state.units[e].type_id].los_range

\* C7: an unloaded air unit with a unit of another player within that unit's
\* LOS range of its position is visible whatever the map holds there; units
\* of its own player never make it visible.
C7_AirSpotted ==
    \A a \in UnitArgs, pos \in MapPos :
        (Db[a.type_id].is_air /\ ~ a.is_loaded) =>
            /\ Spotted(Now, a, pos) =>
                 IsVisible(map, Now, a, pos) /\ IsVisible(NewMap, Now, a, pos)
            /\ ~ Spotted(Now, a, pos) =>
                 ( /\ IsVisible(map, Now, a, pos) = CheckTerrainVisibility(map, Db[a.type_id], pos)
                   /\ ~ IsVisible(NewMap, Now, a, pos) )

\* an air unit is visible on a tile the map holds No for, spotted by a unit
\* of the Fow's owner and, for another air unit, by a unit of a third player
C7_Witness ==
    \E a \in UnitArgs, pos \in MapPos, e \in DOMAIN units :
        /\ Db[a.type_id].is_air /\ ~ a.is_loaded
        /\ map[pos] = No
        /\ IsVisible(map, Now, a, pos)
        /\ units[e].player_id # a.player_id
        /\ Distance(pos, units[e].pos) = Db[units[e].type_id].los_range
        /\ \A x \in DOMAIN units \ {e} :
             Distance(pos, units[x].pos) > Db[units[x].type_id].los_range

\* C8 as stated: for an air unit is_visible answers the same on the map of
\* this Fow and on the map of a Fow fresh from new, for the same state.
C8_Original ==
    \A a \in UnitArgs, pos \in MapPos :
        Db[a.type_id].is_air =>
            IsVisible(map, Now, a, pos) = IsVisible(NewMap, Now, a, pos)

\* the state without the loaded units of the owning player
WithoutLoaded ==
    State([ u \in { x \in DOMAIN units :
                      ~ (units[x].player_id = player_id /\ units[x].is_loaded) }
              |-> units[u] ],
          objects)

\* C9 as stated: right after the reset of EndTurn for the owning player the
\* map is the one the reset leaves when the loaded units of the owner are
\* absent from the state.
C9_Original ==
    IsOwnerReset => map = Reset(WithoutLoaded, prevMap, player_id).map

\* the unit a Move, CreateUnit, UnloadUnit or Detach event names
EventUnit ==
    IF lastEvent.tag = "Detach" THEN lastEvent.transporter_id ELSE lastEvent.unit_id

\* C10: Move, CreateUnit, UnloadUnit and Detach leave the map unchanged when
\* the unit is of another player than the owner, and otherwise leave on each
\* tile the greater of its old value and the contribution of the unit's sweep.
C10_ScopedJoin ==
    (lastEvent.tag \in {"Move", "CreateUnit", "UnloadUnit", "Detach"} /\ ~ panicked) =>
        IF units[EventUnit].player_id # player_id
        THEN map = prevMap
        ELSE \A p \in MapPos : map[p] = Max(prevMap[p], SweepVis(Now, units[EventUnit], p))

\* the sweep of a unit of the owner has raised tiles of a map that was not empty
C10_Witness ==
    /\ lastEvent.tag \in {"Move", "CreateUnit", "UnloadUnit", "Detach"}
    /\ ~ panicked
    /\ units[EventUnit].player_id = player_id
    /\ prevMap # NewMap
    /\ \E p \in MapPos : map[p] > prevMap[p]
    /\ \E p \in MapPos : map[p] = prevMap[p] /\ map[p] > SweepVis(Now, units[EventUnit], p)

\* C11: EndTurn for another player than the owner leaves the map unchanged,
\* and a tile is lowered by no call but EndTurn for the owner, which leaves
\* No on every tile no alive unit of the owner's sweep visits.
C11_ResetOnlyOnOwnerEndTurn ==
    /\ (lastEvent.tag = "EndTurn" /\ lastEvent.new_id # player_id) => map = prevMap
    /\ (\E p \in MapPos : map[p] < prevMap[p]) => IsOwnerReset
    /\ IsOwnerReset =>
         \A p \in MapPos :
             (\A u \in ResetUnits(Now, player_id) : p \notin Visited(Now, units[u]))
                 => map[p] = No

\* EndTurn for the other player has kept a map that a reset would have changed
C11_Witness ==
    /\ lastEvent.tag = "EndTurn" /\ lastEvent.new_id # player_id
    /\ map = prevMap
    /\ \E p \in MapPos :
         /\ map[p] # No
         /\ \A u \in ResetUnits(Now, player_id) : p \notin Visited(Now, units[u])

\* C12: ShowUnit, HideUnit, LoadUnit, Attach, SetReactionFireMode,
\* SectorOwnerChanged, Smoke, RemoveSmoke and VictoryPoint leave every tile
\* unchanged.
C12_IgnoredEvents ==
    lastEvent.tag \in IgnoredTags => map = prevMap

\* smoke has been put on a tile that stays Excellent although a unit of the
\* owner now sees it as Normal
C12_Witness ==
    /\ lastEvent.tag = "Smoke"
    /\ \E p \in SmokePos, u \in ResetUnits(Now, player_id) :
         /\ HasClass(Now, p, {"Smoke"})
         /\ map[p] = Excellent
         /\ prevMap[p] = Excellent
         /\ SweepVis(Now, units[u], p) = Normal

\* C20: for a non-air unit is_visible implies is_tile_visible; is_tile_visible
\* holds exactly of the tiles whose stored value is not No, and of no tile of
\* a Fow fresh from new.
C20_VisibleImpliesTileVisible ==
    /\ \A a \in UnitArgs, pos \in MapPos :
         (~ Db[a.type_id].is_air /\ IsVisible(map, Now, a, pos)) => IsTileVisible(map, pos)
    /\ \A pos \in MapPos : IsTileVisible(map, pos) <=> map[pos] # No
    /\ nEvents = 0 => \A pos \in MapPos : ~ IsTileVisible(map, pos)

\* a truck is visible on a Normal tile, which is_tile_visible reports visible
C20_Witness ==
    \E pos \in MapPos, p \in PlayerIds :
        /\ map[pos] = Normal
        /\ IsVisible(map, Now, [type_id |-> "truck", player_id |-> p, is_loaded |-> FALSE], pos)
        /\ IsTileVisible(map, pos)

SweepTags == {"Move", "CreateUnit", "UnloadUnit", "Detach"}

\* C18: the reset of EndTurn never fails fov_unit's assertion; Move,
\* CreateUnit, UnloadUnit and Detach naming a dead unit abort with the map
\* untouched when the unit is the owner's, and return with the map unchanged
\* when it is another player's; nothing else aborts.
C18_AliveAssertion ==
    /\ lastEvent.tag = "EndTurn" => ~ panicked
    /\ (lastEvent.tag \in SweepTags /\ ~ units[EventUnit].is_alive) =>
         /\ map = prevMap
         /\ panicked <=> units[EventUnit].player_id = player_id
    /\ panicked => (lastEvent.tag \in SweepTags /\ ~ units[EventUnit].is_alive)

\* an event naming a dead unit of the owner has aborted on a map that was
\* not empty
C18_Witness ==
    /\ panicked
    /\ lastEvent.tag \in SweepTags
    /\ units[EventUnit].player_id = player_id /\ ~ units[EventUnit].is_alive
    /\ map = prevMap /\ map # NewMap

\* the target tile of the call conceals: dense terrain, a building or smoke
CalcConcealed ==
    \/ calcArgs.terrain \in {"City", "Trees"}
    \/ \E i \in 1 .. Len(calcArgs.objs) : calcArgs.objs[i] \in {"Building", "Smoke"}

\* C13: calc_visibility returns No exactly when the distance exceeds
\* los_range, Excellent within cover_los_range whatever the tile holds, and
\* otherwise Normal on City, Trees, or under a Building or Smoke object, and
\* Excellent on any other tile.
C13_CalcVisibility ==
    calcResult # <<>> =>
        LET d == Distance(calcArgs.origin, calcArgs.pos)
            v == calcResult[1]
        IN  /\ v = No <=> d > calcArgs.los_range
            /\ d <= calcArgs.cover_los_range => v = Excellent
            /\ (d <= calcArgs.los_range /\ d > calcArgs.cover_los_range) =>
                 v = IF CalcConcealed THEN Normal ELSE Excellent

\* smoke under a road on plain terrain, beyond the cover range: Normal
C13_Witness ==
    /\ calcResult = <<Normal>>
    /\ calcArgs.terrain = "Plain"
    /\ calcArgs.objs = <<"Smoke", "Road">>

\* C14: fov_unit for the same unit twice in succession, on an unchanged
\* state, leaves the map the first call left.
C14_Idempotent ==
    (Len(ops) = 2 /\ ops[1] = ops[2] /\ ops[1].tag = "fov_unit") => map = prevMap

\* the first of two sweeps of one unit has changed the map
C14_Witness ==
    /\ Len(ops) = 2 /\ ops[1] = ops[2] /\ ops[1].tag = "fov_unit"
    /\ map = prevMap
    /\ \E p \in MapPos : map[p] = Excellent /\ startMap[p] = No

\* C15: fov_unit for u1 then u2 leaves the map that fov_unit for u2 then u1
\* leaves.
C15_Commute ==
    (Len(ops) = 2 /\ ops[1].tag = "fov_unit" /\ ops[2].tag = "fov_unit") =>
        map = FovUnit(Now, FovUnit(Now, startMap, units[ops[2].unit_id]), units[ops[1].unit_id])

\* two units have swept one dark tile, one as Normal and one as Excellent
C15_Witness ==
    /\ Len(ops) = 2 /\ ops[1].tag = "fov_unit" /\ ops[2].tag = "fov_unit"
    /\ ops[1].unit_id # ops[2].unit_id
    /\ \E p \in MapPos :
         /\ startMap[p] = No
         /\ SweepVis(Now, units[ops[1].unit_id], p) = Excellent
         /\ SweepVis(Now, units[ops[2].unit_id], p) = Normal
         /\ map[p] = Excellent

IsResetOp(op) == op.tag = "EndTurn" /\ op.new_id = player_id

\* C16: the map EndTurn for the owner leaves is the one it leaves of a fresh
\* map and of any other starting map, and a second EndTurn changes nothing.
C16_ResetPure ==
    (Len(ops) >= 1 /\ IsResetOp(lastEvent)) =>
        /\ map = ApplyEvent(NewMap, player_id, Now, lastEvent).map
        /\ \A m \in StartMaps : ApplyEvent(m, player_id, Now, lastEvent).map = map
        /\ (Len(ops) = 2 /\ IsResetOp(ops[1])) => map = prevMap

\* two resets in a row have put out a tile of the starting map
C16_Witness ==
    /\ Len(ops) = 2 /\ IsResetOp(ops[1]) /\ IsResetOp(ops[2])
    /\ \E p \in MapPos : startMap[p] = Excellent /\ map[p] = No
    /\ \E p \in MapPos : startMap[p] = No /\ map[p] # No

\* the positions the FoV primitive of the unit's type visits
PrimitiveVisits(unit) ==
    IF Db[unit.type_id].is_air
    THEN SimpleFov(Now, unit.pos, Db[unit.type_id].los_range)
    ELSE Fov(Now, unit.pos, Db[unit.type_id].los_range)

\* C17: fov_unit leaves every tile its primitive (simple_fov for an air
\* type, fov for a ground type) does not visit as it was, and every visited
\* tile with the greater of its old value and calc_visibility there.
C17_SweepFrame ==
    (Len(ops) >= 1 /\ lastEvent.tag = "fov_unit") =>
        LET unit == units[lastEvent.unit_id] IN
        \A p \in MapPos :
            map[p] = IF p \in PrimitiveVisits(unit)
                     THEN Max(prevMap[p],
                              CalcVisibility(Now, Db[unit.type_id], unit.pos, p))
                     ELSE prevMap[p]

\* an air unit has lit a tile behind an obstacle and left a tile out of its
\* range lit as it was
C17_Witness ==
    /\ Len(ops) >= 1 /\ lastEvent.tag = "fov_unit"
    /\ Db[units[lastEvent.unit_id].type_id].is_air
    /\ \E p \in MapPos :
         /\ p \in PrimitiveVisits(units[lastEvent.unit_id])
         /\ p \notin Fov(Now, units[lastEvent.unit_id].pos, Db[units[lastEvent.unit_id].type_id].los_range)
         /\ map[p] > prevMap[p]
    /\ \E p \in MapPos :
         /\ p \notin PrimitiveVisits(units[lastEvent.unit_id])
         /\ map[p] = prevMap[p] /\ map[p] # No

IsEventOp(op) == op.tag # "fov_unit" /\ ~ IsResetOp(op)

\* C19: on one state, two events of which neither is EndTurn for the owner
\* leave the same map in either order.
C19_EventsCommute ==
    (Len(ops) = 2 /\ IsEventOp(ops[1]) /\ IsEventOp(ops[2])) =>
        map = ApplyEvent(ApplyEvent(startMap, player_id, Now, ops[2]).map,
                         player_id, Now, ops[1]).map

\* a sweep that sees the attacker's tile as Normal has followed the attack
\* reveal, and the tile is still Excellent
C19_Witness ==
    /\ Len(ops) = 2
    /\ ops[1].tag = "AttackUnit" /\ ops[1].attacker_id # <<>> /\ ~ ops[1].is_ambush
    /\ ops[2].tag = "Move"
    /\ LET p == units[ops[1].attacker_id[1]].pos IN
         /\ startMap[p] = No
         /\ SweepVis(Now, units[ops[2].unit_id], p) = Normal
         /\ map[p] = Excellent

====
